---- MODULE Spec2Model ----
(***************************************************************************)
(* The Canteen hook (useCanteenWagmi) and the dashboard handlers that call *)
(* it, as a state machine.                                                 *)
(*                                                                         *)
(* State of the hook: the five useState cells (message, isProcessing,      *)
(* members, images, refreshTrigger), the two useReadContract results       *)
(* (membersCount, imagesCount) and the resolved contract.  Everything      *)
(* asynchronous is in flight in a set: the reconciliation passes started   *)
(* by the two effects, the write calls awaited by addImage / removeImage,  *)
(* the count queries and the contract event logs not yet delivered.        *)
(* The remote registry (the Canteen contract) is the environment.          *)
(***************************************************************************)
EXTENDS Integers, Sequences, FiniteSets, TLC

\* ---------------------------------------------------------------- bounds
MaxMembers == 1      \* entries the remote members registry can hold
MaxImages  == 2      \* entries the remote images registry can hold
MaxPasses  == 2      \* reconciliation passes in flight per collection
MaxWrites  == 2      \* write calls in flight
MaxGen     == 2      \* largest value refreshTrigger takes
MaxCount   == 3      \* entries of an images registry populated before the mount

\* ---------------------------------------------------------------- values
NoContract == 0              \* canteenContract is undefined
Contracts  == {1}            \* the deployed Canteen contracts
Undefined  == -1             \* data of a useReadContract that has no result
NaN        == -99            \* the JavaScript number NaN
Fraction   == -98            \* the JavaScript number 0.5

HostPool  == <<"node-a", "node-b", "node-c", "node-d">>
ImagePool == <<"nginx", "redis", "httpd", "mongo", "minio">>
Hosts      == {HostPool[k] : k \in 1..MaxMembers}
ImageNames == {ImagePool[k] : k \in 1..MaxImages}

TxRefs        == {"0x1a", "0x2b"}        \* hashes writeContractAsync resolves with
NoErrorText   == ""                      \* an error whose message is empty
ErrorTexts    == {NoErrorText, "execution reverted"}
BigIntError   == "The number NaN cannot be converted to a BigInt"
FractionError == "The number 0.5 cannot be converted to a BigInt"

\* BigInt(n) throws a RangeError for a number that is not an integer.
BigIntThrows(n) == n = NaN \/ n = Fraction
BigIntErrorOf(n) == IF n = NaN THEN BigIntError ELSE FractionError

VARIABLES
    \* the hook
    canteenContract,          \* useDeployedContractInfo's data: NoContract or a contract
    ethersReadonlyProvider,   \* useWagmiEthers' provider is defined
    writeContractAsync,       \* useWriteContract's function is defined
    message, isProcessing, members, images, refreshTrigger,
    membersCount, imagesCount,
    \* asynchronous work in flight
    membersQuery, imagesQuery,        \* "idle" | "fetching": the count queries
    membersPasses, imagesPasses,      \* runs of fetchMembers / fetchImages
    writes,                           \* awaited writeContractAsync calls
    notifications,                    \* emitted logs not yet handed to onLogs
    \* the remote registry
    remoteMembers, remoteImages,
    \* history
    result,                    \* outcome of the last addImage / removeImage call to end
    membersPub, imagesPub,     \* the pass that produced the published list
    hookAdded,                 \* images this hook added, while the contract stays resolved
    removedSeen                \* images whose ImageRemoved log was delivered while idle

vars == <<canteenContract, ethersReadonlyProvider, writeContractAsync,
          message, isProcessing, members, images, refreshTrigger,
          membersCount, imagesCount, membersQuery, imagesQuery,
          membersPasses, imagesPasses, writes, notifications,
          remoteMembers, remoteImages, result, membersPub, imagesPub,
          hookAdded, removedSeen>>

\* ---------------------------------------------------------------- helpers
\* `!x` of JavaScript for a count: undefined and 0n are both falsy.
Falsy(count) == count = Undefined \/ count = 0

RemoteMembersOf(contract) == remoteMembers
RemoteImagesOf(contract)  == remoteImages

ImageNamesOf(list) == {list[k].name : k \in 1..Len(list)}
ActiveImages(reg)  == {reg[k].name : k \in {j \in 1..Len(reg) : reg[j].active}}
ActiveMembers(reg) == {reg[k].host : k \in {j \in 1..Len(reg) : reg[j].active}}

NoPub    == [gen |-> 0, started |-> FALSE, count |-> 0, seen |-> <<>>]
NoResult == [op |-> "none", status |-> "none", tx |-> "", error |-> "", value |-> "none"]

\* The view the hook returns (lines 237-253).
ExposedMembersCount == Len(members)
\* imagesCount of the view taken from the count query instead.
ExposedImagesCountRaw == imagesCount
ExposedImagesCount  == Len(images)

\* The body of fetchMembers up to its loop: the guard, and a fresh pass.
\* `seen` is the history of the loop: what each turn so far found.
fetchMembers(passes, contract, count, provider, gen) ==
    IF contract = NoContract \/ Falsy(count) \/ ~provider
    THEN passes
    ELSE passes \cup {[contract |-> contract, gen |-> gen, count |-> count,
                       i |-> 0, list |-> <<>>, seen |-> <<>>]}

\* fetchImages with `!imagesCount` missing from its guard.
fetchImagesNoCountGuard(passes, contract, count, provider, gen) ==
    IF contract = NoContract \/ ~provider
    THEN passes
    ELSE passes \cup {[contract |-> contract, gen |-> gen, count |-> count,
                       i |-> 0, list |-> <<>>, seen |-> <<>>]}

fetchImages(passes, contract, count, provider, gen) ==
    IF contract = NoContract \/ Falsy(count) \/ ~provider
    THEN passes
    ELSE passes \cup {[contract |-> contract, gen |-> gen, count |-> count,
                       i |-> 0, list |-> <<>>, seen |-> <<>>]}

MembersDeps == <<canteenContract, membersCount, refreshTrigger, ethersReadonlyProvider>>
ImagesDeps  == <<canteenContract, imagesCount, ethersReadonlyProvider, refreshTrigger>>

\* React re-runs an effect after a render in which one of its dependencies
\* changed; the effect calls the fetch function with the new values.
RunEffects ==
    /\ membersPasses' =
          IF MembersDeps' # MembersDeps
          THEN fetchMembers(membersPasses, canteenContract', membersCount',
                            ethersReadonlyProvider', refreshTrigger')
          ELSE membersPasses
    /\ imagesPasses' =
          IF ImagesDeps' # ImagesDeps
          THEN fetchImages(imagesPasses, canteenContract', imagesCount',
                           ethersReadonlyProvider', refreshTrigger')
          ELSE imagesPasses
    /\ Cardinality(membersPasses') <= MaxPasses
    /\ Cardinality(imagesPasses') <= MaxPasses

\* ---------------------------------------------------------------- initial state
Init ==
    /\ canteenContract = NoContract
    /\ ethersReadonlyProvider \in BOOLEAN
    /\ writeContractAsync \in BOOLEAN
    /\ message = <<>>
    /\ isProcessing = FALSE
    /\ members = <<>>
    /\ images = <<>>
    /\ refreshTrigger = 0
    /\ membersCount = Undefined
    /\ imagesCount = Undefined
    /\ membersQuery = "idle"
    /\ imagesQuery = "idle"
    /\ membersPasses = {}
    /\ imagesPasses = {}
    /\ writes = {}
    /\ notifications = {}
    /\ remoteMembers = <<>>
    /\ remoteImages = <<>>
    /\ result = NoResult
    /\ membersPub = NoPub
    /\ imagesPub = NoPub
    /\ hookAdded = {}
    /\ removedSeen = {}


\* ---------------------------------------------------------------- the remote registry
\* The Canteen contract: both collections are append-only, an entry is
\* switched off, never deleted, and every change emits its event.
RegistryAddImage(reg, name)    == Append(reg, [name |-> name, active |-> TRUE])
RegistryRemoveImage(reg, name) ==
    [k \in 1..Len(reg) |-> IF reg[k].name = name THEN [reg[k] EXCEPT !.active = FALSE]
                                                 ELSE reg[k]]
RegistryAddMember(reg, host)    == Append(reg, [host |-> host, active |-> TRUE])
RegistryRemoveMember(reg, host) ==
    [k \in 1..Len(reg) |-> IF reg[k].host = host THEN [reg[k] EXCEPT !.active = FALSE]
                                                 ELSE reg[k]]

\* Names are interchangeable: the k-th image the registry takes is the k-th
\* of the pool, and an add of a name it already holds reverts.
CanAddImage(reg, name) ==
    /\ Len(reg) < MaxImages
    /\ name = ImagePool[Len(reg) + 1]
CanAddMember(reg, host) ==
    /\ Len(reg) < MaxMembers
    /\ host = HostPool[Len(reg) + 1]
CanRemoveImage(reg, name) == name \in ActiveImages(reg)

\* A log reaches the hook only through a watcher registered for the contract.
Emit(event, name) ==
    IF canteenContract = NoContract THEN notifications
    ELSE notifications \cup {[event |-> event, name |-> name]}

RemoteAddImage(name) ==
    /\ CanAddImage(remoteImages, name)
    /\ remoteImages' = RegistryAddImage(remoteImages, name)
    /\ notifications' = Emit("ImageAdded", name)
    /\ UNCHANGED <<canteenContract, ethersReadonlyProvider, writeContractAsync,
                   message, isProcessing, members, images, refreshTrigger,
                   membersCount, imagesCount, membersQuery, imagesQuery,
                   membersPasses, imagesPasses, writes, remoteMembers, result,
                   membersPub, imagesPub, hookAdded, removedSeen>>

RemoteRemoveImage(name) ==
    /\ CanRemoveImage(remoteImages, name)
    /\ remoteImages' = RegistryRemoveImage(remoteImages, name)
    /\ notifications' = Emit("ImageRemoved", name)
    /\ hookAdded' = hookAdded \ {name}
    /\ UNCHANGED <<canteenContract, ethersReadonlyProvider, writeContractAsync,
                   message, isProcessing, members, images, refreshTrigger,
                   membersCount, imagesCount, membersQuery, imagesQuery,
                   membersPasses, imagesPasses, writes, remoteMembers, result,
                   membersPub, imagesPub, removedSeen>>

RemoteAddMember(host) ==
    /\ CanAddMember(remoteMembers, host)
    /\ remoteMembers' = RegistryAddMember(remoteMembers, host)
    /\ notifications' = Emit("MemberAdded", host)
    /\ UNCHANGED <<canteenContract, ethersReadonlyProvider, writeContractAsync,
                   message, isProcessing, members, images, refreshTrigger,
                   membersCount, imagesCount, membersQuery, imagesQuery,
                   membersPasses, imagesPasses, writes, remoteImages, result,
                   membersPub, imagesPub, hookAdded, removedSeen>>

RemoteRemoveMember(host) ==
    /\ host \in ActiveMembers(remoteMembers)
    /\ remoteMembers' = RegistryRemoveMember(remoteMembers, host)
    /\ notifications' = Emit("MemberRemoved", host)
    /\ UNCHANGED <<canteenContract, ethersReadonlyProvider, writeContractAsync,
                   message, isProcessing, members, images, refreshTrigger,
                   membersCount, imagesCount, membersQuery, imagesQuery,
                   membersPasses, imagesPasses, writes, remoteImages, result,
                   membersPub, imagesPub, hookAdded, removedSeen>>

\* ---------------------------------------------------------------- the contract and the provider
\* useDeployedContractInfo resolves the contract of the connected chain.  The
\* two count queries are keyed by its address: they start fetching.
ResolveContract(contract) ==
    /\ canteenContract = NoContract
    /\ canteenContract' = contract
    /\ membersQuery' = "fetching"
    /\ imagesQuery' = "fetching"
    /\ UNCHANGED <<membersCount, imagesCount>>
    /\ UNCHANGED <<ethersReadonlyProvider, writeContractAsync, message, isProcessing,
                   members, images, refreshTrigger, writes, notifications,
                   remoteMembers, remoteImages, result, membersPub, imagesPub,
                   hookAdded, removedSeen>>
    /\ RunEffects

\* The wallet moves to a chain with no deployment: canteenContract is
\* undefined again, the count queries are disabled and hold no data, the
\* watchers are dropped.  Both effects re-run and return at their guard.
LoseContract ==
    /\ canteenContract # NoContract
    /\ canteenContract' = NoContract
    /\ membersCount' = Undefined
    /\ imagesCount' = Undefined
    /\ membersQuery' = "idle"
    /\ imagesQuery' = "idle"
    /\ notifications' = {}
    /\ hookAdded' = {}
    /\ removedSeen' = {}
    /\ UNCHANGED <<ethersReadonlyProvider, writeContractAsync, message, isProcessing,
                   members, images, refreshTrigger, writes,
                   remoteMembers, remoteImages, result, membersPub, imagesPub>>
    /\ RunEffects

ProviderChange ==
    /\ ethersReadonlyProvider' = ~ethersReadonlyProvider
    /\ UNCHANGED <<canteenContract, membersCount, imagesCount, refreshTrigger>>
    /\ UNCHANGED <<writeContractAsync, message, isProcessing, members, images,
                   membersQuery, imagesQuery, writes, notifications,
                   remoteMembers, remoteImages, result, membersPub, imagesPub,
                   hookAdded, removedSeen>>
    /\ RunEffects

\* ---------------------------------------------------------------- the count queries
MembersCountFetched ==
    /\ membersQuery = "fetching"
    /\ canteenContract # NoContract
    /\ membersCount' = Len(RemoteMembersOf(canteenContract))
    /\ membersQuery' = "idle"
    /\ UNCHANGED <<canteenContract, imagesCount, refreshTrigger, ethersReadonlyProvider>>
    /\ UNCHANGED <<writeContractAsync, message, isProcessing, members, images,
                   imagesQuery, writes, notifications, remoteMembers, remoteImages,
                   result, membersPub, imagesPub, hookAdded, removedSeen>>
    /\ RunEffects

ImagesCountFetched ==
    /\ imagesQuery = "fetching"
    /\ canteenContract # NoContract
    /\ imagesCount' = Len(RemoteImagesOf(canteenContract))
    /\ imagesQuery' = "idle"
    /\ UNCHANGED <<canteenContract, membersCount, refreshTrigger, ethersReadonlyProvider>>
    /\ UNCHANGED <<writeContractAsync, message, isProcessing, members, images,
                   membersQuery, writes, notifications, remoteMembers, remoteImages,
                   result, membersPub, imagesPub, hookAdded, removedSeen>>
    /\ RunEffects

\* refetchImagesCount(): the query fetches again while a contract is resolved.
refetchImagesCount == IF canteenContract # NoContract THEN "fetching" ELSE imagesQuery

\* ---------------------------------------------------------------- the reconciliation passes
\* What one turn of a loop found: the entry active, the entry inactive, or
\* one of its two fetches threw.
Found(outcome, active) ==
    IF outcome # "ok" THEN "failed" ELSE IF active THEN "active" ELSE "inactive"

\* One turn of the loop of fetchMembers: members(i), then getMemberDetails.
\* A member's host at an index never changes (the registry is append-only),
\* so the turn reads the registry once, when the details are fetched.  Either
\* fetch may throw: the catch logs and the loop goes on.
MembersFetchEntry(p, outcome) ==
    /\ p \in membersPasses
    /\ p.i < p.count
    /\ LET entry == RemoteMembersOf(p.contract)[p.i + 1]
           q == [p EXCEPT !.i = p.i + 1,
                          !.list = IF outcome = "ok" /\ entry.active
                                   THEN Append(p.list, entry.host) ELSE p.list,
                          !.seen = Append(p.seen, Found(outcome, entry.active))]
       IN membersPasses' = (membersPasses \ {p}) \cup {q}
    /\ UNCHANGED <<canteenContract, ethersReadonlyProvider, writeContractAsync,
                   message, isProcessing, members, images, refreshTrigger,
                   membersCount, imagesCount, membersQuery, imagesQuery,
                   imagesPasses, writes, notifications, remoteMembers, remoteImages,
                   result, membersPub, imagesPub, hookAdded, removedSeen>>

\* MembersPublish resetting the images list as well.
MembersPublishClearsImages(p) ==
    /\ p \in membersPasses
    /\ p.i = p.count
    /\ members' = p.list
    /\ images' = <<>>
    /\ membersPub' = [gen |-> p.gen, started |-> TRUE, count |-> p.count, seen |-> p.seen]
    /\ membersPasses' = membersPasses \ {p}
    /\ UNCHANGED <<canteenContract, ethersReadonlyProvider, writeContractAsync,
                   message, isProcessing, refreshTrigger,
                   membersCount, imagesCount, membersQuery, imagesQuery,
                   imagesPasses, writes, notifications, remoteMembers, remoteImages,
                   result, imagesPub, hookAdded, removedSeen>>

\* setMembers(membersList), after the loop.
MembersPublish(p) ==
    /\ p \in membersPasses
    /\ p.i = p.count
    /\ members' = p.list
    /\ membersPub' = [gen |-> p.gen, started |-> TRUE, count |-> p.count, seen |-> p.seen]
    /\ membersPasses' = membersPasses \ {p}
    /\ UNCHANGED <<canteenContract, ethersReadonlyProvider, writeContractAsync,
                   message, isProcessing, images, refreshTrigger,
                   membersCount, imagesCount, membersQuery, imagesQuery,
                   imagesPasses, writes, notifications, remoteMembers, remoteImages,
                   result, imagesPub, hookAdded, removedSeen>>

\* ImagesFetchEntry with no try / catch in the loop: a fetch that throws
\* ends fetchImages before setImages.
ImagesFetchEntryAborts(p, outcome) ==
    /\ p \in imagesPasses
    /\ p.i < p.count
    /\ LET entry == RemoteImagesOf(p.contract)[p.i + 1]
           q == [p EXCEPT !.i = p.i + 1,
                          !.list = IF entry.active
                                   THEN Append(p.list, [name |-> entry.name, active |-> TRUE])
                                   ELSE p.list,
                          !.seen = Append(p.seen, Found(outcome, entry.active))]
       IN imagesPasses' = IF outcome = "ok" THEN (imagesPasses \ {p}) \cup {q}
                                            ELSE imagesPasses \ {p}
    /\ UNCHANGED <<canteenContract, ethersReadonlyProvider, writeContractAsync,
                   message, isProcessing, members, images, refreshTrigger,
                   membersCount, imagesCount, membersQuery, imagesQuery,
                   membersPasses, writes, notifications, remoteMembers, remoteImages,
                   result, membersPub, imagesPub, hookAdded, removedSeen>>

\* ImagesFetchEntry calling setImages with the list built so far.
ImagesFetchEntryPatches(p, outcome) ==
    /\ p \in imagesPasses
    /\ p.i < p.count
    /\ LET entry == RemoteImagesOf(p.contract)[p.i + 1]
           q == [p EXCEPT !.i = p.i + 1,
                          !.list = IF outcome = "ok" /\ entry.active
                                   THEN Append(p.list, [name |-> entry.name, active |-> TRUE])
                                   ELSE p.list,
                          !.seen = Append(p.seen, Found(outcome, entry.active))]
       IN /\ imagesPasses' = (imagesPasses \ {p}) \cup {q}
          /\ images' = q.list
    /\ UNCHANGED <<canteenContract, ethersReadonlyProvider, writeContractAsync,
                   message, isProcessing, members, refreshTrigger,
                   membersCount, imagesCount, membersQuery, imagesQuery,
                   membersPasses, writes, notifications, remoteMembers, remoteImages,
                   result, membersPub, imagesPub, hookAdded, removedSeen>>

\* ImagesFetchEntry with the test of the active flag missing.
ImagesFetchEntryNoFilter(p, outcome) ==
    /\ p \in imagesPasses
    /\ p.i < p.count
    /\ LET entry == RemoteImagesOf(p.contract)[p.i + 1]
           q == [p EXCEPT !.i = p.i + 1,
                          !.list = IF outcome = "ok"
                                   THEN Append(p.list, [name |-> entry.name, active |-> TRUE])
                                   ELSE p.list,
                          !.seen = Append(p.seen, Found(outcome, entry.active))]
       IN imagesPasses' = (imagesPasses \ {p}) \cup {q}
    /\ UNCHANGED <<canteenContract, ethersReadonlyProvider, writeContractAsync,
                   message, isProcessing, members, images, refreshTrigger,
                   membersCount, imagesCount, membersQuery, imagesQuery,
                   membersPasses, writes, notifications, remoteMembers, remoteImages,
                   result, membersPub, imagesPub, hookAdded, removedSeen>>

ImagesFetchEntry(p, outcome) ==
    /\ p \in imagesPasses
    /\ p.i < p.count
    /\ LET entry == RemoteImagesOf(p.contract)[p.i + 1]
           q == [p EXCEPT !.i = p.i + 1,
                          !.list = IF outcome = "ok" /\ entry.active
                                   THEN Append(p.list, [name |-> entry.name, active |-> TRUE])
                                   ELSE p.list,
                          !.seen = Append(p.seen, Found(outcome, entry.active))]
       IN imagesPasses' = (imagesPasses \ {p}) \cup {q}
    /\ UNCHANGED <<canteenContract, ethersReadonlyProvider, writeContractAsync,
                   message, isProcessing, members, images, refreshTrigger,
                   membersCount, imagesCount, membersQuery, imagesQuery,
                   membersPasses, writes, notifications, remoteMembers, remoteImages,
                   result, membersPub, imagesPub, hookAdded, removedSeen>>

\* ImagesPublish adding the list of the pass to the published one.
ImagesPublishAppends(p) ==
    /\ p \in imagesPasses
    /\ p.i = p.count
    /\ images' = images \o p.list
    /\ imagesPub' = [gen |-> p.gen, started |-> TRUE, count |-> p.count, seen |-> p.seen]
    /\ imagesPasses' = imagesPasses \ {p}
    /\ UNCHANGED <<canteenContract, ethersReadonlyProvider, writeContractAsync,
                   message, isProcessing, members, refreshTrigger,
                   membersCount, imagesCount, membersQuery, imagesQuery,
                   membersPasses, writes, notifications, remoteMembers, remoteImages,
                   result, membersPub, hookAdded, removedSeen>>

\* setImages(imagesList), after the loop.
ImagesPublish(p) ==
    /\ p \in imagesPasses
    /\ p.i = p.count
    /\ images' = p.list
    /\ imagesPub' = [gen |-> p.gen, started |-> TRUE, count |-> p.count, seen |-> p.seen]
    /\ imagesPasses' = imagesPasses \ {p}
    /\ UNCHANGED <<canteenContract, ethersReadonlyProvider, writeContractAsync,
                   message, isProcessing, members, refreshTrigger,
                   membersCount, imagesCount, membersQuery, imagesQuery,
                   membersPasses, writes, notifications, remoteMembers, remoteImages,
                   result, membersPub, hookAdded, removedSeen>>

FetchOutcomes == {"ok", "keyError", "detailError"}


\* ---------------------------------------------------------------- the mutations
Fallback(op) == IF op = "addImage" THEN "Failed to add image" ELSE "Failed to remove image"

\* `error.message || fallback`
ErrorMessage(op, text) == <<"Error: ", IF text = NoErrorText THEN Fallback(op) ELSE text>>

Ended(op, status, tx, text) ==
    [op |-> op, status |-> status, tx |-> tx, error |-> text, value |-> "undefined"]

\* addImage with no finally block after a conversion that throws.
addImageThrowStaysPending(imageName, numReplicas) ==
    IF canteenContract = NoContract \/ ~writeContractAsync
    THEN /\ message' = <<"Contract not available">>
         /\ result' = Ended("addImage", "unavailable", "", "")
         /\ UNCHANGED <<isProcessing, writes>>
    ELSE IF BigIntThrows(numReplicas)
    THEN /\ message' = ErrorMessage("addImage", BigIntErrorOf(numReplicas))
         /\ isProcessing' = TRUE
         /\ result' = Ended("addImage", "failure", "", BigIntErrorOf(numReplicas))
         /\ UNCHANGED writes
    ELSE /\ isProcessing' = TRUE
         /\ message' = <<"Adding image...">>
         /\ writes' = writes \cup {[op |-> "addImage", contract |-> canteenContract,
                                    name |-> imageName, replicas |-> numReplicas]}
         /\ Cardinality(writes') <= MaxWrites
         /\ UNCHANGED result

\* addImage calling writeContractAsync without setIsProcessing(true) first.
addImageNotPending(imageName, numReplicas) ==
    IF canteenContract = NoContract \/ ~writeContractAsync
    THEN /\ message' = <<"Contract not available">>
         /\ result' = Ended("addImage", "unavailable", "", "")
         /\ UNCHANGED <<isProcessing, writes>>
    ELSE IF BigIntThrows(numReplicas)
    THEN /\ message' = ErrorMessage("addImage", BigIntErrorOf(numReplicas))
         /\ isProcessing' = FALSE
         /\ result' = Ended("addImage", "failure", "", BigIntErrorOf(numReplicas))
         /\ UNCHANGED writes
    ELSE /\ UNCHANGED isProcessing
         /\ message' = <<"Adding image...">>
         /\ writes' = writes \cup {[op |-> "addImage", contract |-> canteenContract,
                                    name |-> imageName, replicas |-> numReplicas]}
         /\ Cardinality(writes') <= MaxWrites
         /\ UNCHANGED result

\* addImage with the early return of its guard missing.
addImageNoReturn(imageName, numReplicas) ==
    IF BigIntThrows(numReplicas)
    THEN /\ message' = ErrorMessage("addImage", BigIntErrorOf(numReplicas))
         /\ isProcessing' = FALSE
         /\ result' = Ended("addImage", "failure", "", BigIntErrorOf(numReplicas))
         /\ UNCHANGED writes
    ELSE /\ isProcessing' = TRUE
         /\ message' = <<"Adding image...">>
         /\ writes' = writes \cup {[op |-> "addImage", contract |-> canteenContract,
                                    name |-> imageName, replicas |-> numReplicas]}
         /\ Cardinality(writes') <= MaxWrites
         /\ UNCHANGED result

\* addImage(imageName, numReplicas), up to its await.  BigInt(numReplicas)
\* is evaluated inside the try, before writeContractAsync is called: when it
\* throws, catch and finally run in the same turn.
addImage(imageName, numReplicas) ==
    IF canteenContract = NoContract \/ ~writeContractAsync
    THEN /\ message' = <<"Contract not available">>
         /\ result' = Ended("addImage", "unavailable", "", "")
         /\ UNCHANGED <<isProcessing, writes>>
    ELSE IF BigIntThrows(numReplicas)
    THEN /\ message' = ErrorMessage("addImage", BigIntErrorOf(numReplicas))
         /\ isProcessing' = FALSE
         /\ result' = Ended("addImage", "failure", "", BigIntErrorOf(numReplicas))
         /\ UNCHANGED writes
    ELSE /\ isProcessing' = TRUE
         /\ message' = <<"Adding image...">>
         /\ writes' = writes \cup {[op |-> "addImage", contract |-> canteenContract,
                                    name |-> imageName, replicas |-> numReplicas]}
         /\ Cardinality(writes') <= MaxWrites
         /\ UNCHANGED result

removeImage(imageName) ==
    IF canteenContract = NoContract \/ ~writeContractAsync
    THEN /\ message' = <<"Contract not available">>
         /\ result' = Ended("removeImage", "unavailable", "", "")
         /\ UNCHANGED <<isProcessing, writes>>
    ELSE /\ isProcessing' = TRUE
         /\ message' = <<"Removing image...">>
         /\ writes' = writes \cup {[op |-> "removeImage", contract |-> canteenContract,
                                    name |-> imageName, replicas |-> 0]}
         /\ Cardinality(writes') <= MaxWrites
         /\ UNCHANGED result

CallFrame ==
    UNCHANGED <<canteenContract, ethersReadonlyProvider, writeContractAsync,
                members, images, refreshTrigger, membersCount, imagesCount,
                membersQuery, imagesQuery, membersPasses, imagesPasses,
                notifications, remoteMembers, remoteImages, membersPub, imagesPub,
                hookAdded, removedSeen>>

AddImageCall(imageName, numReplicas) == addImage(imageName, numReplicas) /\ CallFrame
RemoveImageCall(imageName) == removeImage(imageName) /\ CallFrame

\* The continuation of addImage after its await resolved with `tx`: the
\* rest of the try block, then finally.  The function returns nothing.
addImageResolved(w, tx) ==
    /\ message' = <<"Image added! Tx: ", tx>>
    /\ refreshTrigger' = refreshTrigger + 1
    /\ imagesQuery' = refetchImagesCount
    /\ isProcessing' = FALSE
    /\ result' = Ended("addImage", "success", tx, "")

\* addImageRejected with no finally block.
addImageRejectedNoFinally(w, text) ==
    /\ message' = ErrorMessage("addImage", text)
    /\ UNCHANGED isProcessing
    /\ result' = Ended("addImage", "failure", "", text)
    /\ UNCHANGED <<refreshTrigger, imagesQuery>>

\* addImageRejected with the refresh of the success path in the catch.
addImageRejectedRefreshes(w, text) ==
    /\ message' = ErrorMessage("addImage", text)
    /\ isProcessing' = FALSE
    /\ result' = Ended("addImage", "failure", "", text)
    /\ refreshTrigger' = refreshTrigger + 1
    /\ imagesQuery' = refetchImagesCount

\* The continuation after the await rejected: catch, then finally.
addImageRejected(w, text) ==
    /\ message' = ErrorMessage("addImage", text)
    /\ isProcessing' = FALSE
    /\ result' = Ended("addImage", "failure", "", text)
    /\ UNCHANGED <<refreshTrigger, imagesQuery>>

removeImageResolved(w, tx) ==
    /\ message' = <<"Image removed! Tx: ", tx>>
    /\ refreshTrigger' = refreshTrigger + 1
    /\ imagesQuery' = refetchImagesCount
    /\ isProcessing' = FALSE
    /\ result' = Ended("removeImage", "success", tx, "")

removeImageRejected(w, text) ==
    /\ message' = ErrorMessage("removeImage", text)
    /\ isProcessing' = FALSE
    /\ result' = Ended("removeImage", "failure", "", text)
    /\ UNCHANGED <<refreshTrigger, imagesQuery>>

\* The contract executes the write and the awaited call resolves.
WriteResolved(w, tx) ==
    /\ w \in writes
    /\ refreshTrigger < MaxGen
    /\ writes' = writes \ {w}
    /\ IF w.op = "addImage"
       THEN /\ w.replicas >= 0
            /\ CanAddImage(remoteImages, w.name)
            /\ remoteImages' = RegistryAddImage(remoteImages, w.name)
            /\ notifications' = Emit("ImageAdded", w.name)
            /\ hookAdded' = IF canteenContract = w.contract
                            THEN hookAdded \cup {w.name} ELSE hookAdded
            /\ addImageResolved(w, tx)
       ELSE /\ CanRemoveImage(remoteImages, w.name)
            /\ remoteImages' = RegistryRemoveImage(remoteImages, w.name)
            /\ notifications' = Emit("ImageRemoved", w.name)
            /\ hookAdded' = hookAdded \ {w.name}
            /\ removeImageResolved(w, tx)
    /\ UNCHANGED <<canteenContract, membersCount, imagesCount, ethersReadonlyProvider>>
    /\ UNCHANGED <<writeContractAsync, members, images, membersQuery,
                   remoteMembers, membersPub, imagesPub, removedSeen>>
    /\ RunEffects

\* The wallet, the transport or the contract refuses the write.
WriteRejected(w, text) ==
    /\ w \in writes
    /\ writes' = writes \ {w}
    /\ IF w.op = "addImage" THEN addImageRejected(w, text) ELSE removeImageRejected(w, text)
    /\ UNCHANGED <<canteenContract, membersCount, imagesCount, ethersReadonlyProvider>>
    /\ UNCHANGED <<writeContractAsync, members, images, membersQuery,
                   notifications, remoteMembers, remoteImages, membersPub, imagesPub,
                   hookAdded, removedSeen>>
    /\ RunEffects

\* ---------------------------------------------------------------- the event watchers
\* onLogs of the ImageAdded and of the ImageRemoved watcher (the same body).
\* onLogs setting the value its closure captured at the mount plus one,
\* instead of passing an updater.
onLogsStale(log) ==
    /\ refreshTrigger' = 0 + 1
    /\ imagesQuery' = refetchImagesCount

onLogs(log) ==
    /\ refreshTrigger' = refreshTrigger + 1
    /\ imagesQuery' = refetchImagesCount

\* A log is handed to the watcher of its event.  The hook registers watchers
\* for ImageAdded and ImageRemoved only: a member log reaches no callback.
DeliverLog(log) ==
    /\ log \in notifications
    /\ notifications' = notifications \ {log}
    /\ IF log.event \in {"ImageAdded", "ImageRemoved"}
       THEN /\ refreshTrigger < MaxGen
            /\ onLogs(log)
       ELSE UNCHANGED <<refreshTrigger, imagesQuery>>
    /\ removedSeen' = IF log.event = "ImageRemoved" /\ ~isProcessing /\ writes = {}
                      THEN removedSeen \cup {log.name} ELSE removedSeen
    /\ UNCHANGED <<canteenContract, membersCount, imagesCount, ethersReadonlyProvider>>
    /\ UNCHANGED <<writeContractAsync, message, isProcessing, members, images,
                   membersQuery, writes, remoteMembers, remoteImages, result,
                   membersPub, imagesPub, hookAdded>>
    /\ RunEffects

\* refresh: () => setRefreshTrigger(prev => prev + 1)
refresh ==
    /\ refreshTrigger < MaxGen
    /\ refreshTrigger' = refreshTrigger + 1
    /\ UNCHANGED <<canteenContract, membersCount, imagesCount, ethersReadonlyProvider>>
    /\ UNCHANGED <<writeContractAsync, message, isProcessing, members, images,
                   membersQuery, imagesQuery, writes, notifications,
                   remoteMembers, remoteImages, result, membersPub, imagesPub,
                   hookAdded, removedSeen>>
    /\ RunEffects

\* ---------------------------------------------------------------- the dashboard
\* parseInt(text, 10) on the values the replicas input can hold.
ReplicaTexts == {"", "3", ".5"}
ParseInt(text) == CASE text = "3" -> 3
                    [] OTHER -> NaN

\* handleAddImage: the submit button is disabled while isProcessing or while
\* a field is empty, and the handler returns when a field is empty.
handleAddImage(addImageName, addImageReplicas) ==
    /\ ~isProcessing
    /\ addImageName # "" /\ addImageReplicas # ""
    /\ AddImageCall(addImageName, ParseInt(addImageReplicas))

handleRemoveImage(removeImageName) ==
    /\ ~isProcessing
    /\ removeImageName # ""
    /\ RemoveImageCall(removeImageName)

\* ---------------------------------------------------------------- the specification
CallNames    == {ImagePool[1], ImagePool[2]}   \* a name the registry holds, and a new one
CallReplicas == {NaN, 3}

Next ==
    \/ \E c \in Contracts : ResolveContract(c)
    \/ LoseContract
    \/ ProviderChange
    \/ MembersCountFetched
    \/ ImagesCountFetched
    \/ \E n \in ImageNames : RemoteAddImage(n)
    \/ \E n \in ImageNames : RemoteRemoveImage(n)
    \/ \E h \in Hosts : RemoteAddMember(h)
    \/ \E h \in Hosts : RemoteRemoveMember(h)
    \/ \E p \in membersPasses, o \in FetchOutcomes : MembersFetchEntry(p, o)
    \/ \E p \in membersPasses : MembersPublish(p)
    \/ \E p \in imagesPasses, o \in FetchOutcomes : ImagesFetchEntry(p, o)
    \/ \E p \in imagesPasses : ImagesPublish(p)
    \/ \E n \in CallNames, r \in CallReplicas : AddImageCall(n, r)
    \/ \E n \in CallNames : RemoveImageCall(n)
    \/ \E n \in CallNames \cup {""}, t \in ReplicaTexts : handleAddImage(n, t)
    \/ \E n \in CallNames \cup {""} : handleRemoveImage(n)
    \/ \E w \in writes, tx \in TxRefs : WriteResolved(w, tx)
    \/ \E w \in writes, e \in ErrorTexts : WriteRejected(w, e)
    \/ \E log \in notifications : DeliverLog(log)
    \/ refresh

Spec == Init /\ [][Next]_vars

\* ---------------------------------------------------------------- the specifications by concern
\* Next is the whole system.  Each specification below keeps the handlers of
\* one concern and the environment they depend on, and leaves the rest of
\* the system where it stands: every behaviour of one of them is a behaviour
\* of the whole system continued from its initial state.

\* A state the whole system is in after a first reconciliation: one active
\* member and one active image, both published, nothing in flight.
InitLoaded ==
    /\ canteenContract = 1
    /\ ethersReadonlyProvider = TRUE
    /\ writeContractAsync = TRUE
    /\ message = <<>>
    /\ isProcessing = FALSE
    /\ members = <<HostPool[1]>>
    /\ images = <<[name |-> ImagePool[1], active |-> TRUE]>>
    /\ refreshTrigger = 0
    /\ membersCount = 1
    /\ imagesCount = 1
    /\ membersQuery = "idle"
    /\ imagesQuery = "idle"
    /\ membersPasses = {}
    /\ imagesPasses = {}
    /\ writes = {}
    /\ notifications = {}
    /\ remoteMembers = <<[host |-> HostPool[1], active |-> TRUE]>>
    /\ remoteImages = <<[name |-> ImagePool[1], active |-> TRUE]>>
    /\ result = NoResult
    /\ membersPub = [gen |-> 0, started |-> TRUE, count |-> 1, seen |-> <<"active">>]
    /\ imagesPub = [gen |-> 0, started |-> TRUE, count |-> 1, seen |-> <<"active">>]
    /\ hookAdded = {}
    /\ removedSeen = {}

\* InitLoaded is a state of the whole system: SpecLoad reaches it, that is,
\* NeverLoaded is violated under SpecLoad.
NextLoad ==
    \/ \E c \in Contracts : ResolveContract(c)
    \/ MembersCountFetched
    \/ ImagesCountFetched
    \/ \E n \in ImageNames : RemoteAddImage(n)
    \/ \E h \in Hosts : RemoteAddMember(h)
    \/ \E p \in membersPasses : MembersFetchEntry(p, "ok")
    \/ \E p \in membersPasses : MembersPublish(p)
    \/ \E p \in imagesPasses : ImagesFetchEntry(p, "ok")
    \/ \E p \in imagesPasses : ImagesPublish(p)

SpecLoad == Init /\ [][NextLoad]_vars
NeverLoaded == ~InitLoaded

\* The mutations: addImage and removeImage called by the dashboard or by
\* any other caller of the hook, their writes, and what else sets the
\* variables they set.  The registry changes through these writes only.
NextMutation ==
    \/ \E c \in Contracts : ResolveContract(c)
    \/ LoseContract
    \/ ImagesCountFetched
    \/ \E n \in CallNames, r \in CallReplicas : AddImageCall(n, r)
    \/ \E n \in CallNames : RemoveImageCall(n)
    \/ \E n \in CallNames \cup {""}, t \in ReplicaTexts : handleAddImage(n, t)
    \/ \E n \in CallNames \cup {""} : handleRemoveImage(n)
    \/ \E w \in writes, tx \in TxRefs : WriteResolved(w, tx)
    \/ \E w \in writes, e \in ErrorTexts : WriteRejected(w, e)
    \/ \E log \in notifications : DeliverLog(log)
    \/ refresh

SpecMutation == (Init \/ InitLoaded) /\ [][NextMutation]_vars

\* The images reconciliation with a transport that does not fail: the
\* passes of fetchImages, what starts them, and the dashboard adding images.
NextRace ==
    \/ \E c \in Contracts : ResolveContract(c)
    \/ LoseContract
    \/ ImagesCountFetched
    \/ \E n \in ImageNames : RemoteAddImage(n)
    \/ \E n \in ImageNames : RemoteRemoveImage(n)
    \/ \E p \in imagesPasses : ImagesFetchEntry(p, "ok")
    \/ \E p \in imagesPasses : ImagesPublish(p)
    \/ \E n \in CallNames : handleAddImage(n, "3")
    \/ \E w \in writes : WriteResolved(w, "0x1a")
    \/ \E log \in notifications : DeliverLog(log)
    \/ refresh

SpecRace == Init /\ [][NextRace]_vars

\* The event logs of both collections and the count queries they refresh;
\* the passes the effects start are left where they start.
NextEvents ==
    \/ \E c \in Contracts : ResolveContract(c)
    \/ LoseContract
    \/ MembersCountFetched
    \/ ImagesCountFetched
    \/ \E n \in ImageNames : RemoteAddImage(n)
    \/ \E n \in ImageNames : RemoteRemoveImage(n)
    \/ \E h \in Hosts : RemoteAddMember(h)
    \/ \E h \in Hosts : RemoteRemoveMember(h)
    \/ \E log \in notifications : DeliverLog(log)

SpecEvents == Init /\ [][NextEvents]_vars

\* The reconciliation of both collections against registries other clients
\* populated before the mount: the contract has just resolved, the count
\* queries are fetching.  Entries are switched off while the passes run, and
\* any fetch of any turn may throw.  One pass runs per collection.
ImageRegistries ==
    UNION {[1..n -> BOOLEAN] : n \in 0..MaxCount}
MemberRegistries ==
    UNION {[1..n -> BOOLEAN] : n \in 0..MaxMembers}

InitPopulated ==
    /\ canteenContract = 1
    /\ ethersReadonlyProvider = TRUE
    /\ writeContractAsync = TRUE
    /\ message = <<>>
    /\ isProcessing = FALSE
    /\ members = <<>>
    /\ images = <<>>
    /\ refreshTrigger = 0
    /\ membersCount = Undefined
    /\ imagesCount = Undefined
    /\ membersQuery = "fetching"
    /\ imagesQuery = "fetching"
    /\ membersPasses = {}
    /\ imagesPasses = {}
    /\ writes = {}
    /\ notifications = {}
    /\ \E flags \in MemberRegistries :
          remoteMembers = [k \in DOMAIN flags |-> [host |-> HostPool[k], active |-> flags[k]]]
    /\ \E flags \in ImageRegistries :
          remoteImages = [k \in DOMAIN flags |-> [name |-> ImagePool[k], active |-> flags[k]]]
    /\ result = NoResult
    /\ membersPub = NoPub
    /\ imagesPub = NoPub
    /\ hookAdded = {}
    /\ removedSeen = {}

NextReconcile ==
    \/ MembersCountFetched
    \/ ImagesCountFetched
    \/ \E k \in 1..Len(remoteImages) : RemoteRemoveImage(remoteImages[k].name)
    \/ \E k \in 1..Len(remoteMembers) : RemoteRemoveMember(remoteMembers[k].host)
    \/ \E p \in membersPasses, o \in FetchOutcomes : MembersFetchEntry(p, o)
    \/ \E p \in membersPasses : MembersPublish(p)
    \/ \E p \in imagesPasses, o \in FetchOutcomes : ImagesFetchEntry(p, o)
    \/ \E p \in imagesPasses : ImagesPublish(p)

SpecReconcile == InitPopulated /\ [][NextReconcile]_vars

\* The same, with every fetch of a pass resolving or rejecting in the end
\* and the queries answering: a pass that can take a turn or end does so.
PassStep ==
    \/ \E p \in membersPasses, o \in FetchOutcomes : MembersFetchEntry(p, o)
    \/ \E p \in membersPasses : MembersPublish(p)
    \/ \E p \in imagesPasses, o \in FetchOutcomes : ImagesFetchEntry(p, o)
    \/ \E p \in imagesPasses : ImagesPublish(p)

SpecReconcileLive ==
    /\ InitPopulated /\ [][NextReconcile]_vars
    /\ WF_vars(PassStep)
    /\ WF_vars(MembersCountFetched) /\ WF_vars(ImagesCountFetched)

\* Passes in succession over registries that do not change: the caller
\* refreshes only when no pass is in flight, so the passes of a collection
\* run one after the other.
Idle == membersPasses = {} /\ imagesPasses = {}

NextTwice ==
    \/ MembersCountFetched
    \/ ImagesCountFetched
    \/ \E p \in membersPasses, o \in FetchOutcomes : MembersFetchEntry(p, o)
    \/ \E p \in membersPasses : MembersPublish(p)
    \/ \E p \in imagesPasses, o \in FetchOutcomes : ImagesFetchEntry(p, o)
    \/ \E p \in imagesPasses : ImagesPublish(p)
    \/ (Idle /\ refresh)

SpecTwice == InitPopulated /\ [][NextTwice]_vars

\* The arguments of the mutations: the hook's addImage and removeImage
\* called with any name and any number, and the dashboard's handlers.
AnyNames    == CallNames \cup {""}
AnyReplicas == {NaN, Fraction, -1, 0, 3}

NextValidate ==
    \/ \E c \in Contracts : ResolveContract(c)
    \/ ImagesCountFetched
    \/ \E n \in AnyNames, r \in AnyReplicas : AddImageCall(n, r)
    \/ \E n \in AnyNames : RemoveImageCall(n)
    \/ \E n \in AnyNames, t \in ReplicaTexts : handleAddImage(n, t)
    \/ \E n \in AnyNames : handleRemoveImage(n)
    \/ \E w \in writes, tx \in TxRefs : WriteResolved(w, tx)
    \/ \E w \in writes, e \in ErrorTexts : WriteRejected(w, e)
    \/ \E log \in notifications : DeliverLog(log)

SpecValidate == (Init \/ InitLoaded) /\ [][NextValidate]_vars

\* The explicit refresh: other clients append entries, then the caller
\* refreshes; nothing is appended once the generation has been bumped.
\* The transport does not fail.
NextRefresh ==
    \/ \E c \in Contracts : ResolveContract(c)
    \/ MembersCountFetched
    \/ ImagesCountFetched
    \/ \E h \in Hosts : (refreshTrigger = 0 /\ RemoteAddMember(h))
    \/ \E n \in ImageNames : (refreshTrigger = 0 /\ RemoteAddImage(n))
    \/ \E p \in membersPasses : MembersFetchEntry(p, "ok")
    \/ \E p \in membersPasses : MembersPublish(p)
    \/ \E p \in imagesPasses : ImagesFetchEntry(p, "ok")
    \/ \E p \in imagesPasses : ImagesPublish(p)
    \/ \E log \in notifications : DeliverLog(log)
    \/ refresh

SpecRefresh == Init /\ [][NextRefresh]_vars

\* The guards of the two effects: the contract comes and goes, the count
\* queries answer, the caller refreshes, and the passes that do start run.
NextGuard ==
    \/ \E c \in Contracts : ResolveContract(c)
    \/ LoseContract
    \/ MembersCountFetched
    \/ ImagesCountFetched
    \/ \E p \in membersPasses, o \in FetchOutcomes : MembersFetchEntry(p, o)
    \/ \E p \in membersPasses : MembersPublish(p)
    \/ \E p \in imagesPasses, o \in FetchOutcomes : ImagesFetchEntry(p, o)
    \/ \E p \in imagesPasses : ImagesPublish(p)
    \/ refresh

SpecGuard == (Init \/ InitLoaded) /\ [][NextGuard]_vars

\* ---------------------------------------------------------------- the claims
ImageLogs  == {"ImageAdded", "ImageRemoved"}
MemberLogs == {"MemberAdded", "MemberRemoved"}
ImagesSettled == imagesPasses = {} /\ imagesQuery = "idle"
Unavailable == canteenContract = NoContract \/ ~writeContractAsync
WriteEnded == writes' # writes /\ writes' \subseteq writes

\* C1: a pass that began under an older refresh generation never overwrites
\* the list published by a pass that began under a newer one: when a pass of
\* an older generation ends after it, the published list stays the newer
\* pass's result.
C1_NoStaleOverwrite ==
    [][/\ imagesPub'.gen < imagesPub.gen => images' = images
       /\ membersPub'.gen < membersPub.gen => members' = members]_vars

\* C2: at most one write call of addImage and removeImage together is in
\* flight in any reachable state.
C2_AtMostOnePending == Cardinality(writes) <= 1

\* C3: whenever a call that entered Pending ends, by its write resolving or
\* rejecting or by a throw before the write, isProcessing is false afterwards.
C3_SlotReleased ==
    [][(WriteEnded \/ (result' # result /\ result'.status \in {"success", "failure"}))
         => isProcessing' = FALSE]_vars

C3_Released == result.status = "success" /\ ~isProcessing

\* C4: when the write of addImage or removeImage fails, isProcessing is
\* false, the message is "Error: " with the failure's text or the fallback
\* of the operation, the generation is not bumped, no count is refetched, no
\* pass starts, the published lists and their counts stay, and no write is
\* issued again.
C4_FailureLeavesStateAlone ==
    [][(WriteEnded /\ result'.status = "failure") =>
         /\ isProcessing' = FALSE
         /\ message' = <<"Error: ",
                         IF result'.error # NoErrorText THEN result'.error
                         ELSE IF result'.op = "addImage" THEN "Failed to add image"
                         ELSE "Failed to remove image">>
         /\ refreshTrigger' = refreshTrigger
         /\ imagesQuery' = imagesQuery /\ membersQuery' = membersQuery
         /\ imagesPasses' = imagesPasses /\ membersPasses' = membersPasses
         /\ members' = members /\ images' = images
         /\ ExposedMembersCount' = ExposedMembersCount
         /\ ExposedImagesCount' = ExposedImagesCount
         /\ Cardinality(writes') = Cardinality(writes) - 1]_vars

C4_Failed ==
    /\ result.status = "failure" /\ result.error = "execution reverted"
    /\ message = <<"Error: ", "execution reverted">>
    /\ ~isProcessing /\ writes = {}
    /\ images # <<>> /\ members # <<>>

\* C5: while the contract is unresolved or the write function is missing, no
\* step issues a write or sets isProcessing, and a call that ends as
\* unavailable sets the message to the unavailable text and leaves the
\* writes, isProcessing and the generation as they were.
C5_UnavailableFailsFast ==
    [][/\ Unavailable => (writes' \subseteq writes /\ (isProcessing' => isProcessing))
       /\ (result' # result /\ result'.status = "unavailable") =>
             /\ Unavailable
             /\ message' = <<"Contract not available">>
             /\ writes' = writes
             /\ isProcessing' = isProcessing
             /\ refreshTrigger' = refreshTrigger]_vars

C5_Refused ==
    /\ result.status = "unavailable"
    /\ message = <<"Contract not available">>
    /\ canteenContract = NoContract
    /\ images # <<>>

\* C6: once every images pass and count query started has ended, the
\* published images list holds every image this hook added that the registry
\* still reports active; stated here for the lists published by a pass of
\* the latest generation only.
C6_AddedImagePublished ==
    (/\ ImagesSettled /\ canteenContract # NoContract /\ ethersReadonlyProvider
     /\ imagesPub.started /\ imagesPub.gen = refreshTrigger)
        => (hookAdded \cap ActiveImages(remoteImages)) \subseteq ImageNamesOf(images)

\* C7: a call that ended in success returned the reference its write
\* resolved with.
C7_ReturnsTxReference == result.status = "success" => result.value = result.tx

\* C8: the delivery of a log of any of the four events bumps the generation
\* and starts the count query of the collection the event concerns.
C8_EveryLogBumps ==
    [][(notifications' # notifications /\ notifications' \subseteq notifications
          /\ canteenContract' = canteenContract) =>
         /\ refreshTrigger' = refreshTrigger + 1
         /\ \A log \in notifications \ notifications' :
               /\ log.event \in ImageLogs => imagesQuery' = "fetching"
               /\ log.event \in MemberLogs => membersQuery' = "fetching"]_vars

\* C9: once every images pass and count query started has ended, no image
\* whose ImageRemoved log was delivered while no mutation was in progress is
\* in the published images list.
C9_RemovedImageDisappears ==
    ImagesSettled => removedSeen \cap ImageNamesOf(images) = {}

\* C10: while the contract is unresolved the exposed lists are empty and
\* their counts are 0.
C10_UnavailableMeansEmpty ==
    canteenContract = NoContract =>
        /\ members = <<>> /\ images = <<>>
        /\ ExposedMembersCount = 0 /\ ExposedImagesCount = 0

\* The step in which pass p ends: it has visited its last index and leaves
\* the passes in flight.
MembersPublished(p) ==
    p \in membersPasses /\ p.i = p.count /\ membersPasses' = membersPasses \ {p}
ImagesPublished(p) ==
    p \in imagesPasses /\ p.i = p.count /\ imagesPasses' = imagesPasses \ {p}

\* The indices, in increasing order, of the turns that found an active entry.
Kept(seen) == SelectSeq([k \in 1..Len(seen) |-> k], LAMBDA k : seen[k] = "active")

\* C11: the list a pass publishes is no longer than its count and holds
\* exactly the entries of the indices below the count whose two fetches
\* succeeded and whose active flag was true, in increasing index order.
C11_PublishesActiveFetched ==
    [][/\ \A p \in imagesPasses : ImagesPublished(p) =>
             /\ Len(images') <= p.count
             /\ Len(p.seen) = p.count
             /\ images' = [j \in 1..Len(Kept(p.seen)) |->
                             [name |-> ImagePool[Kept(p.seen)[j]], active |-> TRUE]]
       /\ \A p \in membersPasses : MembersPublished(p) =>
             /\ Len(members') <= p.count
             /\ Len(p.seen) = p.count
             /\ members' = [j \in 1..Len(Kept(p.seen)) |-> HostPool[Kept(p.seen)[j]]]]_vars

C11_TwoOfThree ==
    /\ imagesPub.started /\ imagesPub.count = 3
    /\ imagesPub.seen = <<"active", "inactive", "active">>
    /\ images = <<[name |-> ImagePool[1], active |-> TRUE],
                  [name |-> ImagePool[3], active |-> TRUE]>>

\* C12: when an effect re-runs while the count of its collection is 0 or
\* undefined, no pass starts (no key or detail fetch is made) and the
\* published list of the collection stays as it was.
C12_NoCountNoPass ==
    [][/\ (ImagesDeps' # ImagesDeps /\ Falsy(imagesCount')) =>
             (imagesPasses' = imagesPasses /\ images' = images)
       /\ (MembersDeps' # MembersDeps /\ Falsy(membersCount')) =>
             (membersPasses' = membersPasses /\ members' = members)]_vars

C12_Skipped ==
    /\ canteenContract # NoContract
    /\ imagesCount = Undefined /\ membersCount = Undefined
    /\ refreshTrigger > 0
    /\ imagesPasses = {} /\ membersPasses = {}
    /\ images # <<>> /\ members # <<>>
    /\ imagesPub.gen = 0 /\ membersPub.gen = 0

\* C13: the exposed membersCount and imagesCount are the lengths of the
\* published lists, and each is at most the count used by the pass that
\* published the list (0 while no pass has published).
C13_CountsAreListLengths ==
    /\ ExposedMembersCount = Len(members)
    /\ ExposedImagesCount = Len(images)
    /\ ExposedMembersCount <= membersPub.count
    /\ ExposedImagesCount <= imagesPub.count

C13_FewerThanRaw ==
    /\ imagesPub.started /\ imagesPasses = {} /\ imagesQuery = "idle"
    /\ imagesCount = Len(remoteImages) /\ imagesPub.count = imagesCount
    /\ ExposedImagesCount > 0 /\ ExposedImagesCount < imagesCount
    /\ membersPub.started /\ ExposedMembersCount < membersCount

\* C14: refreshTrigger never decreases and no step raises it by more than
\* one; the delivery of an image log and the success of a mutation each raise
\* it by exactly one, whatever its value and whatever happened just before,
\* so n bumps raise it by n.
C14_BumpsCount ==
    [][/\ refreshTrigger' \in {refreshTrigger, refreshTrigger + 1}
       /\ (/\ notifications' # notifications /\ notifications' \subseteq notifications
           /\ canteenContract' = canteenContract
           /\ \E log \in notifications \ notifications' : log.event \in ImageLogs)
             => refreshTrigger' = refreshTrigger + 1
       /\ (WriteEnded /\ result'.status = "success")
             => refreshTrigger' = refreshTrigger + 1]_vars

C14_AllCounted ==
    /\ refreshTrigger = MaxGen
    /\ result.status = "success"
    /\ hookAdded # {}
    /\ notifications = {}

\* C15: a published list changes only in the step that ends a pass, and
\* becomes the whole list of that pass, which has visited every index; until
\* a pass has ended it is the initial empty list.
C15_ReplacedWholesale ==
    [][/\ ~imagesPub.started => images = <<>>
       /\ ~membersPub.started => members = <<>>
       /\ images' # images =>
             \E p \in imagesPasses :
                 ImagesPublished(p) /\ Len(p.seen) = p.count /\ images' = p.list
       /\ members' # members =>
             \E p \in membersPasses :
                 MembersPublished(p) /\ Len(p.seen) = p.count /\ members' = p.list]_vars

C15_StillEnumerating ==
    /\ \E p \in imagesPasses : p.i > 0 /\ p.i < p.count /\ p.list # <<>>
    /\ images = <<>>
    /\ membersPub.started /\ members # <<>>

\* The pass that continues p after one more turn.
NextTurn(p, q) ==
    /\ q.gen = p.gen /\ q.count = p.count /\ q.contract = p.contract
    /\ q.i = p.i + 1 /\ Len(q.seen) = q.i

\* C16: whatever its fetches do, a pass leaves the passes in flight only by
\* taking its next turn or, after its last index, by publishing its list;
\* and when every fetch resolves or rejects in the end, every pass started
\* has published: in the end no pass is in flight and the list of each
\* collection whose count is not 0 is a published one.
C16_FailureDoesNotAbort ==
    /\ [][/\ \A p \in imagesPasses : p \notin imagesPasses' =>
                 (IF p.i < p.count THEN \E q \in imagesPasses' : NextTurn(p, q)
                  ELSE (Len(p.seen) = p.count /\ images' = p.list))
           /\ \A r \in membersPasses : r \notin membersPasses' =>
                 (IF r.i < r.count THEN \E q \in membersPasses' : NextTurn(r, q)
                  ELSE (Len(r.seen) = r.count /\ members' = r.list))]_vars
    /\ <>[](/\ imagesPasses = {} /\ membersPasses = {}
            /\ Len(remoteImages) > 0 => (imagesPub.started /\ imagesPub.count = Len(remoteImages))
            /\ Len(remoteMembers) > 0 => (membersPub.started /\ membersPub.count = Len(remoteMembers)))

C16_PublishedDespiteFailure ==
    /\ imagesPasses = {} /\ imagesPub.started
    /\ imagesPub.seen = <<"failed", "active", "failed">>
    /\ images = <<[name |-> ImagePool[2], active |-> TRUE]>>

\* C17: a step of a members pass (a turn of its loop or its publication)
\* leaves the published images list and the images passes as they are, and
\* a step of an images pass leaves the members list and the members passes.
C17_Independent ==
    [][/\ (\E p \in membersPasses : p \notin membersPasses') =>
             (images' = images /\ imagesPasses' = imagesPasses /\ imagesPub' = imagesPub)
       /\ (\E p \in imagesPasses : p \notin imagesPasses') =>
             (members' = members /\ membersPasses' = membersPasses
              /\ membersPub' = membersPub)]_vars

C17_Interleaved ==
    /\ imagesPub.started /\ Len(images) = 2
    /\ membersPub.started /\ members # <<>>
    /\ imagesPasses = {} /\ membersPasses = {}

SetOf(list) == {list[k] : k \in 1..Len(list)}
NoneFailed(seen) == \A k \in 1..Len(seen) : seen[k] # "failed"

C19_WritesValidated ==
    \A w \in writes :
        /\ w.name # ""
        /\ w.op = "addImage" => (~BigIntThrows(w.replicas) /\ w.replicas >= 0)

InProgress(op) == IF op = "addImage" THEN <<"Adding image...">> ELSE <<"Removing image...">>
SuccessTexts == {"Image added! Tx: ", "Image removed! Tx: "}
SetsSuccess == message' # message /\ Len(message') > 0 /\ message'[1] \in SuccessTexts
SetsFailure == message' # message /\ Len(message') > 0 /\ message'[1] = "Error: "
\* The conversion of the replica count threw before the write was called.
ThrewBeforeWrite ==
    /\ writes' = writes
    /\ result'.op = "addImage" /\ result'.status = "failure"
    /\ result'.error \in {BigIntError, FractionError}

\* C20 (as stated): a write is issued only in a step that leaves isProcessing
\* true and the message the in-progress text of its operation; a success or
\* a failure message is set only in a step in which a write resolved or
\* rejected; a success comes with the bump of the generation, in the step
\* in which the write resolved.
C20_Lifecycle ==
    [][/\ \A w \in writes' \ writes : isProcessing' /\ message' = InProgress(w.op)
       /\ SetsSuccess => (WriteEnded /\ refreshTrigger' = refreshTrigger + 1)
       /\ SetsFailure => (WriteEnded /\ refreshTrigger' = refreshTrigger)]_vars

\* C20 (amended): the same, except that addImage also sets a failure message
\* when the conversion of its replica count throws, before any write.
C20_LifecycleOrThrow ==
    [][/\ \A w \in writes' \ writes : isProcessing' /\ message' = InProgress(w.op)
       /\ SetsSuccess => (WriteEnded /\ refreshTrigger' = refreshTrigger + 1)
       /\ SetsFailure => ((WriteEnded \/ ThrewBeforeWrite)
                           /\ refreshTrigger' = refreshTrigger)]_vars

C20_ThrownAfterSuccess ==
    /\ message = <<"Error: ", BigIntError>>
    /\ result.status = "failure" /\ ~isProcessing /\ writes = {}
    /\ refreshTrigger >= 1 /\ hookAdded # {}

\* C21: isProcessing is true in every state in which a write call of
\* addImage or removeImage is in flight.
C21_PendingWhileInFlight == writes # {} => isProcessing

\* C22: a pass publishes only while the contract it was started for is the
\* resolved one: no pass started under a contract that has since been
\* replaced or lost sets the list of its collection.
C22_OldHandleNeverPublishes ==
    [][/\ \A p \in imagesPasses : ImagesPublished(p) => p.contract = canteenContract
       /\ \A p \in membersPasses : MembersPublished(p) => p.contract = canteenContract]_vars

MembersSettled == membersPasses = {} /\ membersQuery = "idle"

\* C23: once the caller has refreshed after the last append and every
\* members pass and count query started has ended, the published members
\* list holds every active member of the registry.
C23_RefreshShowsNewMember ==
    (/\ refreshTrigger > 0 /\ MembersSettled
     /\ canteenContract # NoContract /\ ethersReadonlyProvider)
        => ActiveMembers(remoteMembers) \subseteq SetOf(members)

\* The step in which a call of addImage ended because the conversion of its
\* replica count threw.
ConversionThrew ==
    /\ result'.op = "addImage" /\ result'.status = "failure"
    /\ result'.error \in {BigIntError, FractionError}
    /\ \/ result' # result
       \/ (message' # message /\ message' = <<"Error: ", result'.error>>)

\* C24: a call of addImage whose replica count BigInt cannot convert ends in
\* failure in the step of the call: no write is issued, the generation is
\* not bumped, no count is refetched, the message is the error's and
\* isProcessing is false.
C24_ConversionFailure ==
    [][ConversionThrew =>
         /\ writes' = writes
         /\ refreshTrigger' = refreshTrigger
         /\ imagesQuery' = imagesQuery
         /\ message' = <<"Error: ", result'.error>>
         /\ isProcessing' = FALSE]_vars

C24_FractionRefused ==
    /\ result.status = "failure" /\ result.error = FractionError
    /\ message = <<"Error: ", FractionError>>
    /\ ~isProcessing /\ writes = {} /\ refreshTrigger = 0
    /\ canteenContract # NoContract /\ images # <<>>

====
